---- MODULE Spec2Model ----
(***************************************************************************)
(* Model of the debate state machine of LLMCreativeStudio                  *)
(* (src/python/debate_manager.py) and of the parts of the conversation     *)
(* manager it works with (src/python/conversation_manager.py).             *)
(*                                                                         *)
(* A DebateManager call is a coroutine.  It runs without interruption up   *)
(* to `await self.cm.generate_llm_response(...)`; the model has one step   *)
(* from the start of a call to its first generation call (or its return),  *)
(* and one step from the return of a generation call to the next one (or   *)
(* to the return of the call).  advance_debate calls itself after a round  *)
(* transition; the inner call only extends the list of the outer one, so   *)
(* a call keeps one accumulated list of responses.                         *)
(*                                                                         *)
(* No persona is assigned in this model: get_character_for_llm returns     *)
(* None and a participant is displayed by its capitalised identifier.      *)
(***************************************************************************)
EXTENDS Integers, Sequences, FiniteSets, TLC

\* ---------------------------------------------------------------- bounds
MaxTasks == 2        \* invocations that may be in flight together (ConcSpec)
MaxDebates == 2      \* start_debate calls in one behaviour
MaxRoles == 2        \* entries of the role registry
MaxLog == 16         \* a new call starts only while the shared log is shorter
MaxConcLog == 6      \* the same, for calls that overlap (ConcSpec)
MaxAdvances == 12    \* advance_debate calls counted per debate

\* ------------------------------------------------------- program constants
IDLE == 0
ROUND_1_OPENING == 1
ROUND_2_QUESTIONING == 2
ROUND_3_RESPONSES == 3
ROUND_4_CONSENSUS == 4
FINAL_SYNTHESIS == 5
COMPLETE == 6

VALID_LLMS == {"claude", "chatgpt", "gemini"}
VALID_ROLES == {"assistant", "debater", "creative", "researcher"}
DefaultSpeakers == <<"claude", "chatgpt", "gemini">>
\* Adapters whose autogen_response never yields to the event loop: they call
\* a synchronous client inside `async def`.  Gemini awaits generate_content_async.
BlockingLLMs == {"claude", "chatgpt"}

None == "none"
Tasks == 1..MaxTasks
Topics == {"X"}
RoleInputs == {"debater", "villain"}
LLMInputs == VALID_LLMS \cup {"llama"}
UserTexts == {"/continue", "my stance"}
SkipToken == "/continue"

VARIABLES
    cm_has_character_manager, \* the conversation manager given to DebateManager exposes character_manager
    active_roles,             \* cm.active_roles: a dict, as its items in insertion order
    conversation_history,     \* cm.conversation_history
    state, topic, rounds, speaker_order, completed_speakers,
    questions, final_positions, consensus_scores, debate_history,
    waiting_for_user, user_inputs,
    tasks,                    \* the invocations: where each stands and what it returned
    call,                     \* the last call of a synchronous method: its arguments and result
    character_manager,        \* a CharacterManager: its characters and llm_to_character dicts
    characters,               \* cm.characters
    llm_to_character,         \* cm.llm_to_character
    debates,                  \* start_debate calls so far
    advances                  \* advance_debate calls made on the running debate since it started

vars == <<cm_has_character_manager, active_roles, conversation_history,
          state, topic, rounds, speaker_order, completed_speakers,
          questions, final_positions, consensus_scores, debate_history,
          waiting_for_user, user_inputs, tasks, call, character_manager,
          characters, llm_to_character, debates, advances>>

\* what the debate calls leave alone
aux == <<call, character_manager, characters, llm_to_character>>

\* ------------------------------------------------------------- dictionaries
EmptyDict == <<>>
Put(d, k, v) == [x \in (DOMAIN d) \cup {k} |-> IF x = k THEN v ELSE d[x]]
Remove(d, k) == [x \in (DOMAIN d) \ {k} |-> d[x]]
Range(s) == {s[i] : i \in DOMAIN s}
\* the keys of a dict listed last-inserted first
Keys_Reversed(items) == [i \in DOMAIN items |-> items[Len(items) + 1 - i][1]]
Keys(items) == [i \in DOMAIN items |-> items[i][1]]

RECURSIVE SumOver(_, _)
SumOver(d, ks) ==
    IF ks = {} THEN 0
    ELSE LET k == CHOOSE x \in ks : TRUE IN d[k] + SumOver(d, ks \ {k})

\* str.capitalize() of the identifiers
Capitalize(llm) ==
    CASE llm = "claude" -> "Claude"
      [] llm = "chatgpt" -> "Chatgpt"
      [] llm = "gemini" -> "Gemini"
      [] OTHER -> llm

\* character.character_name if character else speaker.capitalize(), with no persona assigned
DisplayName(llm) == Capitalize(llm)

\* ------------------------------------------------------------------ messages
\* A text: what it is, the topic and the debate it was written for, and the
\* display names it carries markers for ("TO <name>:", "<name>'s position: NN%").
Content(text, tp, deb, names) == [text |-> text, topic |-> tp, debate |-> deb, names |-> names]

Message(sender, content, round, is_system, is_synthesis, index, total) ==
    [sender |-> sender, content |-> content, debate_round |-> round,
     is_system |-> is_system, is_synthesis |-> is_synthesis,
     speaker_index |-> index, total_speakers |-> total]

NoPrompt == [kind |-> None, round |-> 0, speaker |-> None, name |-> None, topic |-> "",
             debate |-> 0, openings |-> <<>>, questions |-> <<>>, names |-> {},
             scores |-> <<>>, positions |-> <<>>]
\* no synchronous call made yet
NoCall == [op |-> None, args |-> <<>>, result |-> None]

\* CharacterManager.__init__
NewCharacterManager == [characters |-> <<>>, llm_to_character |-> <<>>]

IdleTask == [pc |-> "idle", op |-> None, arg |-> None, outcome |-> None,
             next_speaker |-> None, prompt |-> NoPrompt, responses |-> <<>>]

\* The DebateManager object together with the log of its conversation manager.
Self == [state |-> state, topic |-> topic, rounds |-> rounds,
         speaker_order |-> speaker_order, completed_speakers |-> completed_speakers,
         questions |-> questions, final_positions |-> final_positions,
         consensus_scores |-> consensus_scores, debate_history |-> debate_history,
         conversation_history |-> conversation_history,
         waiting_for_user |-> waiting_for_user, user_inputs |-> user_inputs,
         debate |-> debates]

\* a recording that keeps the message out of the conversation history
Record_DebateOnly(self, msg) == [self EXCEPT !.debate_history = Append(@, msg)]

\* a recording that puts the message in front of the conversation history
Record_Prepends(self, msg) ==
    [self EXCEPT !.debate_history = Append(@, msg),
                 !.conversation_history = <<msg>> \o @]

\* append to debate history and to the conversation history
Record(self, msg) ==
    [self EXCEPT !.debate_history = Append(@, msg),
                 !.conversation_history = Append(@, msg)]

\* ------------------------------------------------- DebateManager: helpers
\* a list of the others that keeps the speaker in it
Others_IncludesSelf(self, speaker) == self.speaker_order

\* [s for s in self.speaker_order if s != speaker]
Others(self, speaker) == SelectSeq(self.speaker_order, LAMBDA s : s # speaker)

\* a search that forgets completed_speakers
NextSpeaker_IgnoresCompleted(self) ==
    IF self.speaker_order = <<>> THEN None ELSE self.speaker_order[1]

\* the first speaker of speaker_order not in completed_speakers, or None
NextSpeaker(self) ==
    LET open == {i \in DOMAIN self.speaker_order :
                    self.speaker_order[i] \notin self.completed_speakers}
    IN  IF open = {} THEN None
        ELSE self.speaker_order[CHOOSE i \in open : \A j \in open : i <= j]

\* the empty string find_statement returns when it finds nothing
NoStatement == Content("", "", 0, {})

\* the content of the first message of `speaker` recorded in round `round`
find_statement(self, speaker, round) ==
    LET hits == {i \in DOMAIN self.debate_history :
                    /\ self.debate_history[i].sender = speaker
                    /\ self.debate_history[i].debate_round = round}
    IN  IF hits = {} THEN NoStatement
        ELSE self.debate_history[CHOOSE i \in hits : \A j \in hits : i <= j].content

\* What the prompt of the current round shows to `speaker`.
generate_round_prompt(self, speaker) ==
    LET others == Range(Others(self, speaker))
        shown == {o \in others : find_statement(self, o, ROUND_1_OPENING).text # ""}
        asked == {o \in others : /\ o \in DOMAIN self.questions
                                  /\ speaker \in DOMAIN self.questions[o]}
    IN  [kind |-> "round", round |-> self.state, speaker |-> speaker,
         name |-> DisplayName(speaker), topic |-> self.topic, debate |-> self.debate,
         openings |-> IF self.state = ROUND_2_QUESTIONING
                      THEN [o \in shown |-> find_statement(self, o, ROUND_1_OPENING)]
                      ELSE EmptyDict,
         questions |-> IF self.state = ROUND_3_RESPONSES
                       THEN [o \in asked |-> self.questions[o][speaker]]
                       ELSE EmptyDict,
         names |-> CASE self.state = ROUND_2_QUESTIONING -> {DisplayName(o) : o \in shown}
                     [] self.state = ROUND_4_CONSENSUS ->
                            {DisplayName(o) : o \in Range(self.speaker_order)}
                     [] OTHER -> {},
         scores |-> EmptyDict, positions |-> EmptyDict]

\* The question a response puts to the participant displayed as `name`.
QuestionText(response, name) ==
    [to |-> name, topic |-> response.topic, debate |-> response.debate]

\* self.questions[speaker]: one entry per other participant whose "TO <name>:"
\* marker (or a sentence naming it with a question mark) is in the response
extract_questions(self, speaker, response) ==
    LET found == {o \in Range(Others(self, speaker)) :
                    /\ response.text = "questions"
                    /\ DisplayName(o) \in response.names}
    IN  [self EXCEPT !.questions =
            Put(@, speaker, [o \in found |-> QuestionText(response, DisplayName(o))])]

\* the <<score, total>> with total < 400 for which the float product
\* (score / total) * 100 falls just below the integer it stands for
FloatShort == {<<29, 50>>, <<29, 100>>, <<57, 100>>, <<58, 100>>, <<87, 150>>, <<58, 200>>,
               <<114, 200>>, <<116, 200>>, <<145, 250>>, <<87, 300>>, <<171, 300>>,
               <<174, 300>>, <<203, 350>>}

\* a rescaling that turns the order of the scores around
Rescale_Complement(score, total) == 100 - ((score * 100) \div total)

\* a rescaling that rounds to the nearest integer
Rescale_Rounded(score, total) == (score * 200 + total) \div (2 * total)

\* int((score / total) * 100)
Rescale(score, total) ==
    ((score * 100) \div total) - (IF <<score, total>> \in FloatShort THEN 1 ELSE 0)

\* a check that also rescales a total of exactly 95 or 105
Normalize_Strict(scores) ==
    LET total == SumOver(scores, DOMAIN scores)
    IN  IF (total <= 95 \/ total >= 105) /\ total > 0
        THEN [o \in DOMAIN scores |-> Rescale(scores[o], total)]
        ELSE scores

\* the scores of one speaker after the 95..105 check
Normalize(scores) ==
    LET total == SumOver(scores, DOMAIN scores)
    IN  IF (total < 95 \/ total > 105) /\ total > 0
        THEN [o \in DOMAIN scores |-> Rescale(scores[o], total)]
        ELSE scores

\* self.consensus_scores[speaker]: one entry per participant whose marker
\* "<name>'s position: " is in the response, then the normalisation
\* the tail of extract_consensus_scores: the scores read from the response
\* are in self.consensus_scores[speaker]; check their total and rescale
StoreScores(self, speaker, raw) ==
    [self EXCEPT !.consensus_scores = Put(@, speaker, Normalize(raw))]

extract_consensus_scores(self, speaker, response) ==
    LET found == {o \in Range(self.speaker_order) :
                    /\ response.text = "allocation"
                    /\ DisplayName(o) \in response.names}
    IN  StoreScores(self, speaker, [o \in found |-> 40])

\* an average that divides by the number of participants
calculate_average_scores_OverAll(self) ==
    LET scored(to) == {f \in DOMAIN self.consensus_scores :
                          to \in DOMAIN self.consensus_scores[f]}
        total(to) == SumOver([f \in scored(to) |-> self.consensus_scores[f][to]], scored(to))
    IN  [to \in Range(self.speaker_order) |-> total(to) \div Len(self.speaker_order)]

calculate_average_scores(self) ==
    LET scored(to) == {f \in DOMAIN self.consensus_scores :
                          to \in DOMAIN self.consensus_scores[f]}
        targets == Range(self.speaker_order) \cup
                   UNION {DOMAIN self.consensus_scores[f] : f \in DOMAIN self.consensus_scores}
        total(to) == SumOver([f \in scored(to) |-> self.consensus_scores[f][to]], scored(to))
    IN  [to \in targets |->
            IF scored(to) = {} THEN 0 ELSE total(to) \div Cardinality(scored(to))]

\* --------------------------------------------- DebateManager: the coroutines
\* A call that returns its list of responses.
Return(self, responses) ==
    [self |-> self, pc |-> "idle", outcome |-> "returned", next_speaker |-> None,
     prompt |-> NoPrompt, responses |-> responses]

\* A call that ends with an exception: AttributeError, the conversation
\* manager has no attribute character_manager.
Raise(self) ==
    [self |-> self, pc |-> "idle", outcome |-> "raised", next_speaker |-> None,
     prompt |-> NoPrompt, responses |-> <<>>]

\* A call suspended in `await self.cm.generate_llm_response(llm, prompt)`.
Await(self, pc, llm, prompt, responses) ==
    [self |-> self, pc |-> pc, outcome |-> None, next_speaker |-> llm,
     prompt |-> prompt, responses |-> responses]

\* a choice that always takes the first participant
Synthesizer_First(self) == self.speaker_order[1]

\* generate_synthesis, line 425: who writes the synthesis
Synthesizer(self) ==
    IF "claude" \in Range(self.speaker_order) THEN "claude" ELSE self.speaker_order[1]

\* generate_synthesis up to its generation call
generate_synthesis(self, responses) ==
    LET notice == Message("system", Content("synthesis_notice", self.topic, self.debate, {}),
                          FINAL_SYNTHESIS, TRUE, FALSE, 0, 0)
        avg == calculate_average_scores(self)
        prompt == [kind |-> "synthesis", round |-> FINAL_SYNTHESIS,
                   speaker |-> Synthesizer(self), name |-> DisplayName(Synthesizer(self)),
                   topic |-> self.topic, debate |-> self.debate,
                   openings |-> EmptyDict, questions |-> EmptyDict, names |-> {},
                   scores |-> [s \in Range(self.speaker_order) |-> avg[s]],
                   positions |-> [s \in Range(self.speaker_order) |->
                                    IF s \in DOMAIN self.final_positions
                                    THEN self.final_positions[s]
                                    ELSE Content("No final position provided", "", 0, {})]]
    IN  Await(Record(self, notice), "syn", Synthesizer(self), prompt, responses)

\* an advance_debate that runs the synthesis again once the debate is complete
advance_debate_ResynthesizesWhenComplete(self, responses) ==
    IF self.state = IDLE THEN Return(self, responses)
    ELSE IF self.state \in ROUND_1_OPENING..ROUND_4_CONSENSUS THEN
        IF NextSpeaker(self) # None
        THEN IF cm_has_character_manager
             THEN Await(self, "gen", NextSpeaker(self),
                        generate_round_prompt(self, NextSpeaker(self)), responses)
             ELSE Raise(self)
        ELSE Return([self EXCEPT !.state = COMPLETE], responses)
    ELSE generate_synthesis(self, responses)

\* an advance_debate that closes a debate that was never started
advance_debate_IdleCompletes(self, responses) ==
    IF self.state = IDLE THEN Return([self EXCEPT !.state = COMPLETE], responses)
    ELSE IF self.state \in ROUND_1_OPENING..ROUND_4_CONSENSUS THEN
        IF NextSpeaker(self) # None
        THEN IF cm_has_character_manager
             THEN Await(self, "gen", NextSpeaker(self),
                        generate_round_prompt(self, NextSpeaker(self)), responses)
             ELSE Raise(self)
        ELSE Return([self EXCEPT !.state = COMPLETE], responses)
    ELSE IF self.state = FINAL_SYNTHESIS THEN generate_synthesis(self, responses)
    ELSE Return(self, responses)

\* advance_debate from its first line to its first generation call or its return;
\* `responses` is what the calls around it have collected
advance_debate(self, responses) ==
    IF self.state = IDLE THEN Return(self, responses)
    ELSE IF self.state \in ROUND_1_OPENING..ROUND_4_CONSENSUS THEN
        IF NextSpeaker(self) # None
        THEN IF cm_has_character_manager
             THEN Await(self, "gen", NextSpeaker(self),
                        generate_round_prompt(self, NextSpeaker(self)), responses)
             ELSE Raise(self)
        ELSE Return([self EXCEPT !.state = COMPLETE], responses)
    ELSE IF self.state = FINAL_SYNTHESIS THEN generate_synthesis(self, responses)
    ELSE Return(self, responses)

\* a start_debate that forgets to reset the consensus scores
start_debate_KeepsScores(self, tp, roles) ==
    LET fresh == [self EXCEPT
                    !.topic = tp, !.rounds = 4, !.state = ROUND_1_OPENING,
                    !.questions = EmptyDict, !.final_positions = EmptyDict,
                    !.debate_history = <<>>, !.completed_speakers = {},
                    !.speaker_order = IF Keys(roles) = <<>> THEN DefaultSpeakers
                                      ELSE Keys(roles)]
        system_message == Message("system", Content("debate_start", tp, fresh.debate, {}),
                                  0, TRUE, FALSE, 0, 0)
    IN  advance_debate(Record(fresh, system_message), <<system_message>>)

\* a start_debate that is refused while a debate is in a numbered round
start_debate_RefusedInRound(self, tp, roles) ==
    IF self.state \in ROUND_1_OPENING..ROUND_4_CONSENSUS THEN Return(self, <<>>)
    ELSE start_debate_KeepsScores([self EXCEPT !.consensus_scores = EmptyDict], tp, roles)

\* start_debate up to the first generation call of the advance_debate it ends with
start_debate(self, tp, roles) ==
    LET fresh == [self EXCEPT
                    !.topic = tp, !.rounds = 4, !.state = ROUND_1_OPENING,
                    !.questions = EmptyDict, !.final_positions = EmptyDict,
                    !.consensus_scores = EmptyDict, !.debate_history = <<>>,
                    !.completed_speakers = {},
                    !.speaker_order = IF Keys(roles) = <<>> THEN DefaultSpeakers
                                      ELSE Keys(roles)]
        system_message == Message("system", Content("debate_start", tp, fresh.debate, {}),
                                  0, TRUE, FALSE, 0, 0)
    IN  advance_debate(Record(fresh, system_message), <<system_message>>)

\* a processing that keeps only the latest final position
ProcessResponse_OverwritesPositions(self, speaker, response_content) ==
    CASE self.state = ROUND_2_QUESTIONING -> extract_questions(self, speaker, response_content)
      [] self.state = ROUND_3_RESPONSES ->
            [self EXCEPT !.final_positions = Put(EmptyDict, speaker, response_content)]
      [] self.state = ROUND_4_CONSENSUS ->
            extract_consensus_scores(self, speaker, response_content)
      [] OTHER -> self

\* the round-specific processing of a response
ProcessResponse(self, speaker, response_content) ==
    CASE self.state = ROUND_2_QUESTIONING -> extract_questions(self, speaker, response_content)
      [] self.state = ROUND_3_RESPONSES ->
            [self EXCEPT !.final_positions = Put(@, speaker, response_content)]
      [] self.state = ROUND_4_CONSENSUS ->
            extract_consensus_scores(self, speaker, response_content)
      [] OTHER -> self

\* a limit that ends the numbered rounds after the third
RoundLimit_Three(self) == 3

\* advance_debate, line 200: min(self.rounds, 4)
RoundLimit(self) == IF self.rounds < 4 THEN self.rounds ELSE 4

\* a completion that returns once the state has moved to the next round
RoundComplete_ReturnsAfterTransition(self, responses) ==
    LET cleared == [self EXCEPT !.completed_speakers = {}]
    IN  IF cleared.state < RoundLimit(cleared)
        THEN LET moved == [cleared EXCEPT !.state = @ + 1]
                 round_message == Message("system",
                                      Content("round_start", moved.topic, moved.debate, {}),
                                      moved.state, TRUE, FALSE, 0, 0)
             IN  Return(Record(moved, round_message), Append(responses, round_message))
        ELSE generate_synthesis([cleared EXCEPT !.state = FINAL_SYNTHESIS], responses)

\* a completion that leaves completed_speakers as it is
RoundComplete_KeepsCompleted(self, responses) ==
    IF self.state < RoundLimit(self)
    THEN LET moved == [self EXCEPT !.state = @ + 1]
             round_message == Message("system",
                                  Content("round_start", moved.topic, moved.debate, {}),
                                  moved.state, TRUE, FALSE, 0, 0)
         IN  advance_debate(Record(moved, round_message), Append(responses, round_message))
    ELSE generate_synthesis([self EXCEPT !.state = FINAL_SYNTHESIS], responses)

\* all speakers have completed: the next round, or the synthesis
RoundComplete(self, responses) ==
    LET cleared == [self EXCEPT !.completed_speakers = {}]
    IN  IF cleared.state < RoundLimit(cleared)
        THEN LET moved == [cleared EXCEPT !.state = @ + 1]
                 round_message == Message("system",
                                      Content("round_start", moved.topic, moved.debate, {}),
                                      moved.state, TRUE, FALSE, 0, 0)
             IN  IF moved.state # FINAL_SYNTHESIS
                 THEN advance_debate(Record(moved, round_message),
                                     Append(responses, round_message))
                 ELSE Return(Record(moved, round_message), Append(responses, round_message))
        ELSE generate_synthesis([cleared EXCEPT !.state = FINAL_SYNTHESIS], responses)

\* a gate that opens one speaker early
AllCompleted_OneShort(self) ==
    Cardinality(self.completed_speakers) >= Len(self.speaker_order) - 1

\* len(self.completed_speakers) == len(self.speaker_order)
AllCompleted(self) == Cardinality(self.completed_speakers) = Len(self.speaker_order)

\* a round in which a speaker whose response yields no entry is not marked
\* completed and is polled again
ResumeRound_RepollsOnMiss(self, speaker, response_content, responses) ==
    LET processed == ProcessResponse(self, speaker, response_content)
        response == Message(speaker, response_content, processed.state, FALSE, FALSE,
                            Cardinality(processed.completed_speakers) + 1,
                            Len(processed.speaker_order))
        logged == Record(processed, response)
        marked == [logged EXCEPT !.completed_speakers = @ \cup {speaker}]
    IN  IF self.state \in {ROUND_2_QUESTIONING, ROUND_4_CONSENSUS}
           /\ response_content.names = {}
        THEN Return(logged, Append(responses, response))
        ELSE IF AllCompleted(marked)
        THEN RoundComplete(marked, Append(responses, response))
        ELSE Return(marked, Append(responses, response))

\* a round in which a failed generation call ends the call with nothing recorded
ResumeRound_AbortsOnError(self, speaker, response_content, responses) ==
    LET processed == ProcessResponse(self, speaker, response_content)
        response == Message(speaker, response_content, processed.state, FALSE, FALSE,
                            Cardinality(processed.completed_speakers) + 1,
                            Len(processed.speaker_order))
        marked == [Record(processed, response) EXCEPT
                        !.completed_speakers = @ \cup {speaker}]
    IN  IF response_content.text = "error" THEN Return(self, responses)
        ELSE IF AllCompleted(marked)
        THEN RoundComplete(marked, Append(responses, response))
        ELSE Return(marked, Append(responses, response))

\* advance_debate from the return of its generation call on
ResumeRound(self, speaker, response_content, responses) ==
    LET processed == ProcessResponse(self, speaker, response_content)
        response == Message(speaker, response_content, processed.state, FALSE, FALSE,
                            Cardinality(processed.completed_speakers) + 1,
                            Len(processed.speaker_order))
        marked == [Record(processed, response) EXCEPT
                        !.completed_speakers = @ \cup {speaker}]
    IN  IF AllCompleted(marked)
        THEN RoundComplete(marked, Append(responses, response))
        ELSE Return(marked, Append(responses, response))

\* a synthesis after which the state is left at FINAL_SYNTHESIS
ResumeSynthesis_StaysInSynthesis(self, synthesis_content, responses) ==
    LET synthesis_response == Message("synthesis", synthesis_content, FINAL_SYNTHESIS,
                                      FALSE, TRUE, 0, 0)
    IN  Return(Record(self, synthesis_response), Append(responses, synthesis_response))

\* generate_synthesis from the return of its generation call on, and the two
\* lines of advance_debate that follow it
ResumeSynthesis(self, synthesis_content, responses) ==
    LET synthesis_response == Message("synthesis", synthesis_content, FINAL_SYNTHESIS,
                                      FALSE, TRUE, 0, 0)
    IN  Return([Record(self, synthesis_response) EXCEPT !.state = COMPLETE],
               Append(responses, synthesis_response))

\* ------------------------------------------------- the generation interface
\* What cm.generate_llm_response may return for a round prompt: an answer in
\* the format the prompt asks for, or a text without any marker (the error
\* text of a failed call, or an unstructured answer).
GenContents(prompt) ==
    CASE prompt.round = ROUND_2_QUESTIONING ->
            {Content("questions", prompt.topic, prompt.debate, prompt.names),
             Content("error", prompt.topic, prompt.debate, {})}
      [] prompt.round = ROUND_4_CONSENSUS ->
            {Content("allocation", prompt.topic, prompt.debate, prompt.names),
             Content("error", prompt.topic, prompt.debate, {})}
      [] OTHER -> {Content("statement", prompt.topic, prompt.debate, {})}

\* The synthesis is asked with use_thinking_mode=True.  For claude this passes
\* use_thinking=True to Claude.autogen_response, which has no such parameter:
\* the TypeError is caught and the error text returned.
SynContents(prompt) ==
    IF prompt.speaker = "claude"
    THEN {Content("error", prompt.topic, prompt.debate, {})}
    ELSE {Content("synthesis", prompt.topic, prompt.debate, {})}

\* ------------------------------------------------------------------ actions
Init ==
    /\ cm_has_character_manager \in BOOLEAN
    /\ active_roles = <<>>
    /\ conversation_history = <<>>
    /\ state = IDLE
    /\ topic = ""
    /\ rounds = 0
    /\ speaker_order = <<>>
    /\ completed_speakers = {}
    /\ questions = EmptyDict
    /\ final_positions = EmptyDict
    /\ consensus_scores = EmptyDict
    /\ debate_history = <<>>
    /\ waiting_for_user = FALSE
    /\ user_inputs = EmptyDict
    /\ tasks = [t \in Tasks |-> IdleTask]
    /\ call = NoCall
    /\ character_manager = NewCharacterManager
    /\ characters = <<>>
    /\ llm_to_character = <<>>
    /\ debates = 0
    /\ advances = 0

\* the fields of the DebateManager and the shared log after a step of a coroutine
Commit(r) ==
    /\ state' = r.self.state
    /\ topic' = r.self.topic
    /\ rounds' = r.self.rounds
    /\ speaker_order' = r.self.speaker_order
    /\ completed_speakers' = r.self.completed_speakers
    /\ questions' = r.self.questions
    /\ final_positions' = r.self.final_positions
    /\ consensus_scores' = r.self.consensus_scores
    /\ debate_history' = r.self.debate_history
    /\ conversation_history' = r.self.conversation_history
    /\ waiting_for_user' = r.self.waiting_for_user
    /\ user_inputs' = r.self.user_inputs

TaskOf(op, arg, r) ==
    [pc |-> r.pc, op |-> op, arg |-> arg, outcome |-> r.outcome,
     next_speaker |-> r.next_speaker, prompt |-> r.prompt, responses |-> r.responses]

InFlight(t) == tasks[t].pc \in {"gen", "syn"}
AllIdle == \A t \in Tasks : ~InFlight(t)
\* a generation call of a blocking adapter holds the event loop: nothing else runs
Blocked(t) == InFlight(t) /\ tasks[t].next_speaker \in BlockingLLMs
LoopFree(t) == \A u \in Tasks \ {t} : ~Blocked(u)
\* a new invocation takes the first free slot
FreeSlot(t) == ~InFlight(t) /\ \A u \in Tasks : u < t => InFlight(u)
Active == state \in ROUND_1_OPENING..FINAL_SYNTHESIS

\* a role assignment that skips the validation of the role
_assign_role_AnyRole(roles, llm, role) ==
    [active_roles |-> Append(roles, <<llm, role>>), result |-> "assigned"]

\* ConversationManager._assign_role: the registry after the call and the notice
_assign_role(roles, llm, role) ==
    IF llm \notin VALID_LLMS THEN [active_roles |-> roles, result |-> "unknown llm"]
    ELSE IF role \notin VALID_ROLES THEN [active_roles |-> roles, result |-> "invalid role"]
    ELSE [active_roles |->
             IF llm \in Range(Keys(roles))
             THEN [i \in DOMAIN roles |-> IF roles[i][1] = llm THEN <<llm, role>> ELSE roles[i]]
             ELSE Append(roles, <<llm, role>>),
          result |-> "assigned"]

\* /role <llm> <role>: ConversationManager._assign_role
AssignRole(llm, role) ==
    /\ \A t \in Tasks : ~Blocked(t)
    /\ \/ llm \in Range(Keys(active_roles))
       \/ Len(active_roles) < MaxRoles
    /\ active_roles' = _assign_role(active_roles, llm, role).active_roles
    /\ UNCHANGED <<cm_has_character_manager, conversation_history, state, topic, rounds,
                   speaker_order, completed_speakers, questions, final_positions,
                   consensus_scores, debate_history, waiting_for_user, user_inputs,
                   tasks, debates, advances>>
    /\ UNCHANGED aux

\* /debate <topic>: DebateManager.start_debate
StartDebate(t, tp) ==
    /\ FreeSlot(t) /\ LoopFree(t)
    /\ debates < MaxDebates
    /\ Len(conversation_history) < MaxLog
    /\ LET r == start_debate([Self EXCEPT !.debate = debates + 1], tp, active_roles)
       IN  /\ Commit(r)
           /\ tasks' = [tasks EXCEPT ![t] = TaskOf("start_debate", tp, r)]
    /\ debates' = debates + 1
    /\ advances' = 0
    /\ UNCHANGED <<cm_has_character_manager, active_roles>>
    /\ UNCHANGED aux

\* /continue outside a pause: DebateManager.advance_debate
AdvanceDebate(t) ==
    /\ FreeSlot(t) /\ LoopFree(t)
    /\ Active => (advances < MaxAdvances /\ Len(conversation_history) < MaxLog)
    /\ LET r == advance_debate(Self, <<>>)
       IN  /\ Commit(r)
           /\ tasks' = [tasks EXCEPT ![t] = TaskOf("advance_debate", None, r)]
    /\ advances' = IF Active THEN advances + 1 ELSE advances
    /\ UNCHANGED <<cm_has_character_manager, active_roles, debates>>
    /\ UNCHANGED aux

\* the generation call of a round returns
GenReturn(t, response_content) ==
    /\ tasks[t].pc = "gen" /\ LoopFree(t)
    /\ response_content \in GenContents(tasks[t].prompt)
    /\ LET r == ResumeRound(Self, tasks[t].next_speaker, response_content,
                            tasks[t].responses)
       IN  /\ Commit(r)
           /\ tasks' = [tasks EXCEPT ![t] = TaskOf(tasks[t].op, tasks[t].arg, r)]
    /\ UNCHANGED <<cm_has_character_manager, active_roles, debates, advances>>
    /\ UNCHANGED aux

\* the generation call of the synthesis returns
SynReturn(t, synthesis_content) ==
    /\ tasks[t].pc = "syn" /\ LoopFree(t)
    /\ synthesis_content \in SynContents(tasks[t].prompt)
    /\ LET r == ResumeSynthesis(Self, synthesis_content, tasks[t].responses)
       IN  /\ Commit(r)
           /\ tasks' = [tasks EXCEPT ![t] = TaskOf(tasks[t].op, tasks[t].arg, r)]
    /\ UNCHANGED <<cm_has_character_manager, active_roles, debates, advances>>
    /\ UNCHANGED aux

\* debate_manager.process_user_input(text): class DebateManager defines no such
\* method, the call ends with AttributeError
ProcessUserInput(t, text) ==
    /\ FreeSlot(t) /\ LoopFree(t)
    /\ tasks' = [tasks EXCEPT ![t] = TaskOf("process_user_input", text, Raise(Self))]
    /\ UNCHANGED <<cm_has_character_manager, active_roles, conversation_history, state,
                   topic, rounds, speaker_order, completed_speakers, questions,
                   final_positions, consensus_scores, debate_history, waiting_for_user,
                   user_inputs, debates, advances>>
    /\ UNCHANGED aux

\* Calls made one after the other: a call starts when the one before has returned.
Next ==
    \/ AllIdle /\ \E llm \in LLMInputs, role \in RoleInputs : AssignRole(llm, role)
    \/ AllIdle /\ \E tp \in Topics : StartDebate(1, tp)
    \/ AllIdle /\ AdvanceDebate(1)
    \/ \E c \in GenContents(tasks[1].prompt) : GenReturn(1, c)
    \/ \E c \in SynContents(tasks[1].prompt) : SynReturn(1, c)
    \/ AllIdle /\ \E text \in UserTexts : ProcessUserInput(1, text)

Spec == Init /\ [][Next]_vars

\* Requests of one session handled by the event loop together: a call may start
\* while others are suspended in a generation call that yields.
ConcBudget == Len(conversation_history) < MaxConcLog

ConcNext ==
    \/ \E llm \in LLMInputs, role \in RoleInputs : AssignRole(llm, role)
    \/ ConcBudget /\ \E t \in Tasks, tp \in Topics : StartDebate(t, tp)
    \/ ConcBudget /\ \E t \in Tasks : AdvanceDebate(t)
    \/ \E t \in Tasks : \E c \in GenContents(tasks[t].prompt) : GenReturn(t, c)
    \/ \E t \in Tasks : \E c \in SynContents(tasks[t].prompt) : SynReturn(t, c)
    \/ \E t \in Tasks, text \in UserTexts : ProcessUserInput(t, text)

ConcSpec == Init /\ [][ConcNext]_vars

\* ------------------------------------------- the consensus scores on their own
\* Round 4 of a debate of the default three: each participant's allocation is
\* read in turn, and the averages may be asked for at any point.
\* The first to speak may give any of ScoreValues, the others one of LaterValues.
ScoreValues == {0, 30, 50, 95, 100, 105}
LaterValues == {30, 50}
RawScoreMaps(speaker) ==
    UNION {[found -> IF speaker = DefaultSpeakers[1] THEN ScoreValues ELSE LaterValues] :
              found \in SUBSET Range(DefaultSpeakers)}

ScoreInit ==
    /\ cm_has_character_manager = TRUE
    /\ active_roles = <<>>
    /\ conversation_history = <<>>
    /\ state = ROUND_4_CONSENSUS
    /\ topic = "X"
    /\ rounds = 4
    /\ speaker_order = DefaultSpeakers
    /\ completed_speakers = {}
    /\ questions = EmptyDict
    /\ final_positions = EmptyDict
    /\ consensus_scores = EmptyDict
    /\ debate_history = <<>>
    /\ waiting_for_user = FALSE
    /\ user_inputs = EmptyDict
    /\ tasks = [t \in Tasks |-> IdleTask]
    /\ call = NoCall
    /\ character_manager = NewCharacterManager
    /\ characters = <<>>
    /\ llm_to_character = <<>>
    /\ debates = 1
    /\ advances = 0

\* extract_consensus_scores(speaker, response), the response holding the scores raw
ExtractScores(speaker, raw) ==
    /\ speaker \notin DOMAIN consensus_scores
    /\ \A i, j \in DOMAIN speaker_order :
          (i < j /\ speaker_order[j] = speaker) => speaker_order[i] \in DOMAIN consensus_scores
    /\ consensus_scores' = StoreScores(Self, speaker, raw).consensus_scores
    /\ call' = [op |-> "extract_consensus_scores", args |-> <<speaker, raw>>, result |-> None]
    /\ UNCHANGED <<cm_has_character_manager, active_roles, conversation_history, state,
                   topic, rounds, speaker_order, completed_speakers, questions,
                   final_positions, debate_history, waiting_for_user, user_inputs, tasks,
                   character_manager, characters, llm_to_character, debates, advances>>

\* calculate_average_scores()
CalculateAverages ==
    /\ call' = [op |-> "calculate_average_scores", args |-> <<>>,
                result |-> calculate_average_scores(Self)]
    /\ UNCHANGED <<cm_has_character_manager, active_roles, conversation_history, state,
                   topic, rounds, speaker_order, completed_speakers, questions,
                   final_positions, consensus_scores, debate_history, waiting_for_user,
                   user_inputs, tasks, character_manager, characters, llm_to_character,
                   debates, advances>>

ScoreNext ==
    \/ \E speaker \in Range(speaker_order) :
          \E raw \in RawScoreMaps(speaker) : ExtractScores(speaker, raw)
    \/ CalculateAverages

ScoreSpec == ScoreInit /\ [][ScoreNext]_vars

\* ------------------------------------------------- personas and roles on their own
\* str.lower() on the names and identifiers used below
Lower(name) ==
    CASE name = "X" -> "x"
      [] name = "Y" -> "y"
      [] name = "Claude" -> "claude"
      [] OTHER -> name

CharacterNames == {"X", "x", "Y"}
PersonaLLMs == {"claude", "chatgpt", "llama", "Claude"}
RoleLLMs == {"claude", "llama"}

\* CharacterManager._remove_character
_remove_character(cmgr, character_name) ==
    IF character_name \in DOMAIN cmgr.characters
    THEN LET llm_name == cmgr.characters[character_name]
         IN  [characters |-> Remove(cmgr.characters, character_name),
              llm_to_character |->
                  IF /\ llm_name \in DOMAIN cmgr.llm_to_character
                     /\ cmgr.llm_to_character[llm_name] = character_name
                  THEN Remove(cmgr.llm_to_character, llm_name)
                  ELSE cmgr.llm_to_character]
    ELSE cmgr

\* an assignment that leaves the earlier holder of the name in llm_to_character
assign_character_KeepsHolder(cmgr, llm_input, character_name) ==
    LET llm_name == Lower(llm_input)
    IN  IF llm_name \notin VALID_LLMS THEN [cmgr |-> cmgr, result |-> "InvalidLLMError"]
        ELSE [cmgr |-> [characters |-> Put(cmgr.characters, character_name, llm_name),
                        llm_to_character |->
                            Put(cmgr.llm_to_character, llm_name, character_name)],
              result |-> "assigned"]

\* CharacterManager.assign_character: the manager after the call, and how it ended
assign_character(cmgr, llm_input, character_name) ==
    LET llm_name == Lower(llm_input)
        same == {e \in DOMAIN cmgr.characters : Lower(e) = Lower(character_name)}
        c1 == IF same = {} THEN cmgr
              ELSE _remove_character(cmgr, CHOOSE e \in same : TRUE)
        c2 == IF llm_name \in DOMAIN c1.llm_to_character
              THEN _remove_character(c1, c1.llm_to_character[llm_name])
              ELSE c1
    IN  IF llm_name \notin VALID_LLMS THEN [cmgr |-> cmgr, result |-> "InvalidLLMError"]
        ELSE [cmgr |-> [characters |-> Put(c2.characters, character_name, llm_name),
                        llm_to_character |-> Put(c2.llm_to_character, llm_name, character_name)],
              result |-> "assigned"]

\* ConversationManager._assign_character over cm.characters and cm.llm_to_character
_assign_character(cm, llm, character_name) ==
    LET same == {e \in DOMAIN cm.characters : Lower(e) = Lower(character_name)}
        d1 == IF same = {} THEN cm.characters
              ELSE Remove(cm.characters, CHOOSE e \in same : TRUE)
        d2 == IF llm \in DOMAIN cm.llm_to_character /\ cm.llm_to_character[llm] \in DOMAIN d1
              THEN Remove(d1, cm.llm_to_character[llm])
              ELSE d1
    IN  IF llm \notin VALID_LLMS
        THEN [characters |-> cm.characters, llm_to_character |-> cm.llm_to_character,
              result |-> "unknown llm"]
        ELSE [characters |-> Put(d2, character_name, llm),
              llm_to_character |-> Put(cm.llm_to_character, llm, character_name),
              result |-> "assigned"]

\* the registries of the conversation manager, and the CharacterManager
Registries == [characters |-> characters, llm_to_character |-> llm_to_character,
               active_roles |-> active_roles, character_manager |-> character_manager]

PersonaInit ==
    /\ cm_has_character_manager = FALSE
    /\ active_roles = <<>>
    /\ conversation_history = <<>>
    /\ state = IDLE
    /\ topic = ""
    /\ rounds = 0
    /\ speaker_order = <<>>
    /\ completed_speakers = {}
    /\ questions = EmptyDict
    /\ final_positions = EmptyDict
    /\ consensus_scores = EmptyDict
    /\ debate_history = <<>>
    /\ waiting_for_user = FALSE
    /\ user_inputs = EmptyDict
    /\ tasks = [t \in Tasks |-> IdleTask]
    /\ call = NoCall
    /\ character_manager = NewCharacterManager
    /\ characters = <<>>
    /\ llm_to_character = <<>>
    /\ debates = 0
    /\ advances = 0

DebateUntouched ==
    UNCHANGED <<cm_has_character_manager, conversation_history, state, topic, rounds,
                speaker_order, completed_speakers, questions, final_positions,
                consensus_scores, debate_history, waiting_for_user, user_inputs, tasks,
                debates, advances>>

\* character_manager.assign_character(llm_name, character_name)
AssignCharacter(llm_input, character_name) ==
    LET r == assign_character(character_manager, llm_input, character_name)
    IN  /\ character_manager' = r.cmgr
        /\ call' = [op |-> "assign_character", args |-> <<llm_input, character_name>>,
                    result |-> r.result, before |-> Registries]
        /\ UNCHANGED <<active_roles, characters, llm_to_character>>
        /\ DebateUntouched

\* character_manager.clear_characters()
ClearCharacters ==
    /\ character_manager' = [characters |-> <<>>, llm_to_character |-> <<>>]
    /\ call' = [op |-> "clear_characters", args |-> <<>>, result |-> None,
                before |-> Registries]
    /\ UNCHANGED <<active_roles, characters, llm_to_character>>
    /\ DebateUntouched

\* /character <llm> <name>: _handle_command lowers the llm, then _assign_character
CharacterCommand(llm_input, character_name) ==
    LET r == _assign_character(Registries, Lower(llm_input), character_name)
    IN  /\ characters' = r.characters
        /\ llm_to_character' = r.llm_to_character
        /\ call' = [op |-> "/character", args |-> <<llm_input, character_name>>,
                    result |-> r.result, before |-> Registries]
        /\ UNCHANGED <<active_roles, character_manager>>
        /\ DebateUntouched

\* /clear_characters
ClearCharactersCommand ==
    /\ characters' = <<>>
    /\ llm_to_character' = <<>>
    /\ call' = [op |-> "/clear_characters", args |-> <<>>, result |-> "cleared",
                before |-> Registries]
    /\ UNCHANGED <<active_roles, character_manager>>
    /\ DebateUntouched

\* /role <llm> <role>, the notice kept
RoleCommand(llm, role) ==
    LET r == _assign_role(active_roles, llm, role)
    IN  /\ active_roles' = r.active_roles
        /\ call' = [op |-> "/role", args |-> <<llm, role>>, result |-> r.result,
                    before |-> Registries]
        /\ UNCHANGED <<character_manager, characters, llm_to_character>>
        /\ DebateUntouched

PersonaNext ==
    \/ \E llm \in PersonaLLMs, name \in CharacterNames : AssignCharacter(llm, name)
    \/ ClearCharacters
    \/ \E llm \in PersonaLLMs, name \in CharacterNames : CharacterCommand(llm, name)
    \/ ClearCharactersCommand
    \/ \E llm \in RoleLLMs, role \in RoleInputs : RoleCommand(llm, role)

PersonaSpec == PersonaInit /\ [][PersonaNext]_vars

\* ------------------------------------------------------- addressing and routing
\* A str is the sequence of its characters.
MaxFragments == 3    \* pieces a message is put together from

AT_A == <<"@", "a">>
AT_C == <<"@", "c">>
AT_G == <<"@", "g">>
AT_CLAUDE == <<"@", "c", "l", "a", "u", "d", "e">>
AT_CHATGPT == <<"@", "c", "h", "a", "t", "g", "p", "t">>
AT_GEMINI == <<"@", "g", "e", "m", "i", "n", "i">>
SPACE == <<" ">>
HELLO == <<"h", "e", "l", "l", "o">>

\* MessageRouter.mention_map, in insertion order
RouterMentionMap ==
    << <<AT_A, "claude">>, <<AT_C, "claude">>, <<AT_G, "gemini">>,
       <<AT_CLAUDE, "claude">>, <<AT_CHATGPT, "chatgpt">>, <<AT_GEMINI, "gemini">> >>

\* ConversationManager.mention_map, in insertion order
mention_map ==
    << <<AT_A, "claude">>, <<AT_C, "chatgpt">>, <<AT_G, "gemini">>,
       <<AT_CLAUDE, "claude">>, <<AT_CHATGPT, "chatgpt">>, <<AT_GEMINI, "gemini">> >>

Fragments == {AT_A, AT_C, AT_G, AT_CLAUDE, AT_CHATGPT, AT_GEMINI, SPACE, HELLO}

RECURSIVE Join(_)
Join(pieces) == IF pieces = <<>> THEN <<>> ELSE Head(pieces) \o Join(Tail(pieces))

Messages == {Join(pieces) : pieces \in UNION {[1..n -> Fragments] : n \in 0..MaxFragments}}

\* sub occurs in str at position i
OccursAt(sub, str, i) ==
    /\ i + Len(sub) - 1 <= Len(str)
    /\ SubSeq(str, i, i + Len(sub) - 1) = sub

\* sub in str
Contains(sub, str) == \E i \in 1..Len(str) : OccursAt(sub, str, i)

\* str.startswith(sub)
StartsWith(str, sub) == sub = <<>> \/ OccursAt(sub, str, 1)

\* str.replace(sub, ""): the occurrences are taken from the left, none overlapping
RECURSIVE ReplaceAll(_, _)
ReplaceAll(str, sub) ==
    IF str = <<>> THEN <<>>
    ELSE IF OccursAt(sub, str, 1)
         THEN ReplaceAll(SubSeq(str, Len(sub) + 1, Len(str)), sub)
         ELSE <<Head(str)>> \o ReplaceAll(Tail(str), sub)

\* str.strip()
Strip(str) ==
    LET solid == {i \in DOMAIN str : str[i] # " "}
    IN  IF solid = {} THEN <<>>
        ELSE SubSeq(str, CHOOSE first \in solid : \A j \in solid : first <= j,
                         CHOOSE last \in solid : \A k \in solid : k <= last)

\* str.lstrip(" ,")
RECURSIVE LStrip(_)
LStrip(str) ==
    IF str # <<>> /\ Head(str) \in {" ", ","} THEN LStrip(Tail(str)) ELSE str

\* str.lower()
LowerStr(str) == [i \in DOMAIN str |-> Lower(str[i])]

\* sorted(items, key=lambda x: len(x[0]), reverse=True): stable
RECURSIVE SortedByLength(_, _)
SortedByLength(items, n) ==
    IF n = 0 THEN <<>>
    ELSE SelectSeq(items, LAMBDA x : Len(x[1]) = n) \o SortedByLength(items, n - 1)

LongestToken(items) ==
    CHOOSE n \in 0..8 : /\ \A i \in DOMAIN items : Len(items[i][1]) <= n
                         /\ (n = 0 \/ \E k \in DOMAIN items : Len(items[k][1]) = n)

\* the first pair of mentions whose token is in the message
FirstMention(mentions, message) ==
    LET hits == {i \in DOMAIN mentions : Contains(mentions[i][1], message)}
    IN  IF hits = {} THEN 0 ELSE CHOOSE i \in hits : \A j \in hits : i <= j

\* a parse_mentions that takes the tokens in the order of the map
parse_mentions_InsertionOrder(message) ==
    LET i == FirstMention(RouterMentionMap, message)
    IN  IF i = 0 THEN [target |-> None, text |-> message]
        ELSE [target |-> RouterMentionMap[i][2],
              text |-> Strip(ReplaceAll(message, RouterMentionMap[i][1]))]

\* MessageRouter.parse_mentions
parse_mentions(message) ==
    LET sorted_mentions == SortedByLength(RouterMentionMap, LongestToken(RouterMentionMap))
        i == FirstMention(sorted_mentions, message)
    IN  IF i = 0 THEN [target |-> None, text |-> message]
        ELSE [target |-> sorted_mentions[i][2],
              text |-> Strip(ReplaceAll(message, sorted_mentions[i][1]))]

\* ConversationManager._parse_addressing
_parse_addressing(message, chars) ==
    LET i == FirstMention(mention_map, message)
        named == {n \in DOMAIN chars :
                     \/ StartsWith(LowerStr(message), LowerStr(n) \o <<",">>)
                     \/ StartsWith(LowerStr(message), LowerStr(n) \o <<" ">>)}
    IN  IF i # 0
        THEN [target |-> mention_map[i][2],
              text |-> Strip(ReplaceAll(message, mention_map[i][1]))]
        ELSE IF named # {}
        THEN LET character_name == CHOOSE c \in named : TRUE
             IN  [target |-> chars[character_name],
                  text |-> LStrip(SubSeq(message, Len(character_name) + 1, Len(message)))]
        ELSE [target |-> None, text |-> message]

\* An optional list argument is <<>> for None and <<list>> for a list.

\* a selection that looks at the role registry before the target
determine_recipient_llms_RolesFirst(target_llm, roles, default_llms) ==
    IF roles # <<>> THEN Keys(roles)
    ELSE IF target_llm # None THEN <<target_llm>>
    ELSE IF default_llms = <<>> THEN DefaultSpeakers ELSE default_llms[1]

\* MessageRouter.determine_recipient_llms
determine_recipient_llms(target_llm, roles, default_llms) ==
    IF target_llm # None THEN <<target_llm>>
    ELSE IF roles # <<>> THEN Keys(roles)
    ELSE IF default_llms = <<>> THEN DefaultSpeakers ELSE default_llms[1]

DebateUntouchedByRouting ==
    UNCHANGED <<cm_has_character_manager, state, topic, rounds, speaker_order,
                completed_speakers, questions, final_positions, consensus_scores,
                debate_history, waiting_for_user, user_inputs, tasks, debates, advances>>

\* process_message, lines 113-118: who is asked to respond
responding_llms(target_llm, roles) ==
    IF target_llm # None THEN <<target_llm>>
    ELSE IF roles # <<>> THEN Keys(roles)
    ELSE DefaultSpeakers

RouterLLMs == {"claude", "gemini"}
Targets == {None, "claude", "gemini", "llama"}
DefaultLists == {<<>>, << <<"gemini">> >>}
Failures == {{}, {"claude"}}

\* A session in which no utterance was handled yet; it may have a persona.
RouterInit ==
    /\ cm_has_character_manager = FALSE
    /\ active_roles = <<>>
    /\ conversation_history = <<>>
    /\ state = IDLE
    /\ topic = ""
    /\ rounds = 0
    /\ speaker_order = <<>>
    /\ completed_speakers = {}
    /\ questions = EmptyDict
    /\ final_positions = EmptyDict
    /\ consensus_scores = EmptyDict
    /\ debate_history = <<>>
    /\ waiting_for_user = FALSE
    /\ user_inputs = EmptyDict
    /\ tasks = [t \in Tasks |-> IdleTask]
    /\ call = NoCall
    /\ character_manager = NewCharacterManager
    /\ \E persona \in BOOLEAN :
          /\ characters = IF persona THEN [n \in {HELLO} |-> "gemini"] ELSE <<>>
          /\ llm_to_character = IF persona THEN [l \in {"gemini"} |-> HELLO] ELSE <<>>
    /\ debates = 0
    /\ advances = 0

\* message_router.parse_mentions(message)
ParseMentions(message) ==
    /\ call' = [op |-> "parse_mentions", args |-> <<message>>,
                result |-> parse_mentions(message), before |-> Registries]
    /\ UNCHANGED <<active_roles, conversation_history, character_manager, characters,
                   llm_to_character>>
    /\ DebateUntouchedByRouting

\* message_router.determine_recipient_llms(target_llm, message, active_roles, default_llms)
DetermineRecipients(target_llm, default_llms) ==
    /\ call' = [op |-> "determine_recipient_llms", args |-> <<target_llm, default_llms>>,
                result |-> determine_recipient_llms(target_llm, active_roles, default_llms),
                before |-> Registries]
    /\ UNCHANGED <<active_roles, conversation_history, character_manager, characters,
                   llm_to_character>>
    /\ DebateUntouchedByRouting

\* where the session stands when a call is made
Position == [log |-> Len(conversation_history), debate_log |-> Len(debate_history),
             state |-> state]

\* process_message(message, "user") for a message that is no command. While the
\* debate manager reports a pause the message goes to process_user_input, which
\* class DebateManager lacks: the AttributeError is caught at line 132 and an
\* error notice is returned. Otherwise every responder's reply is logged; the
\* generation call fails for the responders in failing, for which
\* generate_llm_response returns its error text.
ProcessMessage(message, failing) ==
    IF waiting_for_user
    THEN /\ call' = [op |-> "process_message", args |-> <<message, failing>>,
                     result |-> [target |-> None, text |-> message,
                                 responding_llms |-> <<>>,
                                 responses |-> <<[llm |-> "system", response |-> "error"]>>,
                                 handed_to |-> "process_user_input"],
                     before |-> Registries, at |-> Position]
         /\ UNCHANGED <<conversation_history, active_roles, character_manager,
                        characters, llm_to_character>>
         /\ DebateUntouchedByRouting
    ELSE
    /\ LET addressed == _parse_addressing(message, characters)
           responding == responding_llms(addressed.target, active_roles)
           utterance == [sender |-> "user", content |-> addressed.text,
                         target |-> addressed.target, llm |-> None]
           generated(llm) == IF llm \in failing THEN "error" ELSE "response"
           reply(llm) == [sender |-> IF llm \in DOMAIN llm_to_character
                                     THEN llm_to_character[llm] ELSE llm,
                          content |-> generated(llm), target |-> "user", llm |-> llm]
       IN  /\ conversation_history' = conversation_history \o
                 <<utterance>> \o [i \in DOMAIN responding |-> reply(responding[i])]
           /\ call' = [op |-> "process_message", args |-> <<message, failing>>,
                       result |-> [target |-> addressed.target, text |-> addressed.text,
                                   responding_llms |-> responding,
                                   responses |-> [i \in DOMAIN responding |->
                                                    [llm |-> responding[i],
                                                     response |-> generated(responding[i])]],
                                   handed_to |-> None],
                       before |-> Registries, at |-> Position]
    /\ UNCHANGED <<active_roles, character_manager, characters, llm_to_character>>
    /\ DebateUntouchedByRouting

\* Roles are assigned, then one of the calls is made.
RouterNext ==
    \/ call = NoCall /\ \E llm \in RouterLLMs, role \in RoleInputs : AssignRole(llm, role)
    \/ call = NoCall /\ \E message \in Messages : ParseMentions(message)
    \/ call = NoCall /\ \E target_llm \in Targets, default_llms \in DefaultLists :
          DetermineRecipients(target_llm, default_llms)
    \/ call = NoCall /\ \E message \in Messages, failing \in Failures :
          ProcessMessage(message, failing)

RouterSpec == RouterInit /\ [][RouterNext]_vars

\* ------------------------------------------------ generation calls that fail
\* A session with a conversation manager that has a character manager: one
\* ordinary turn to the default three, then debates among them.
FailureInit == Init /\ cm_has_character_manager

FailureNext ==
    \/ /\ AllIdle /\ state = IDLE /\ call = NoCall
       /\ \E failing \in SUBSET VALID_LLMS : ProcessMessage(HELLO, failing)
    \/ AllIdle /\ \E tp \in Topics : StartDebate(1, tp)
    \/ AllIdle /\ AdvanceDebate(1)
    \/ \E c \in GenContents(tasks[1].prompt) : GenReturn(1, c)
    \/ \E c \in SynContents(tasks[1].prompt) : SynReturn(1, c)

FailureSpec == FailureInit /\ [][FailureNext]_vars

\* ------------------------------------------------------- a session of commands
\* the notice _handle_command returns when there is nothing to continue
Notice(text) == Message("system", Content(text, "", 0, {}), 0, TRUE, FALSE, 0, 0)

\* the call returns the notice and leaves everything else as it is
ReturnNotice(text) ==
    /\ tasks' = [tasks EXCEPT ![1] = TaskOf("/continue", None,
                                            Return(Self, <<Notice(text)>>))]
    /\ UNCHANGED <<cm_has_character_manager, active_roles, conversation_history, state,
                   topic, rounds, speaker_order, completed_speakers, questions,
                   final_positions, consensus_scores, debate_history, waiting_for_user,
                   user_inputs, debates, advances>>
    /\ UNCHANGED aux

\* a /continue that also writes the command into the conversation log
ContinueCommand_LogsCommand ==
    /\ tasks' = [tasks EXCEPT ![1] = TaskOf("/continue", None,
                                            Return(Self, <<Notice("no_debate")>>))]
    /\ conversation_history' = Append(conversation_history, Notice("/continue"))
    /\ Len(conversation_history) < MaxLog
    /\ UNCHANGED <<cm_has_character_manager, active_roles, state,
                   topic, rounds, speaker_order, completed_speakers, questions,
                   final_positions, consensus_scores, debate_history, waiting_for_user,
                   user_inputs, debates, advances>>
    /\ UNCHANGED aux

\* /continue and /continue_debate, _handle_command lines 381-396; the
\* conversation manager has a debate_manager once /debate was given
ContinueCommand ==
    IF debates = 0 THEN ReturnNotice("no_debate")
    ELSE IF waiting_for_user THEN ProcessUserInput(1, SkipToken)
    ELSE IF state # IDLE THEN AdvanceDebate(1)
    ELSE ReturnNotice("already_complete")

\* What a user sends in a session, one request handled after the other: roles,
\* /debate, /continue, and one message that is no command.
SessionNext ==
    \/ AllIdle /\ \E llm \in LLMInputs, role \in RoleInputs : AssignRole(llm, role)
    \/ AllIdle /\ \E tp \in Topics : StartDebate(1, tp)
    \/ AllIdle /\ ContinueCommand
    \/ \E c \in GenContents(tasks[1].prompt) : GenReturn(1, c)
    \/ \E c \in SynContents(tasks[1].prompt) : SynReturn(1, c)
    \/ AllIdle /\ call = NoCall /\ \E failing \in Failures : ProcessMessage(HELLO, failing)

SessionSpec == Init /\ [][SessionNext]_vars

\* ==================================================================== claims
IsResponse(msg) == ~msg.is_system /\ ~msg.is_synthesis
ResponseIndexes(log) == {i \in DOMAIN log : IsResponse(log[i])}
SynthesisIndexes(log) == {i \in DOMAIN log : log[i].is_synthesis}
IsRoundStart(msg) == msg.is_system /\ msg.content.text = "round_start"
Returned(t) == tasks[t].pc = "idle" /\ tasks[t].outcome = "returned"
Spoke(p, r) == \E i \in ResponseIndexes(debate_history) :
                  debate_history[i].sender = p /\ debate_history[i].debate_round = r

\* C1: a poll of a numbered round goes to the first participant of
\* speaker_order that is not in completed_speakers, and no participant has two
\* responses in the same round of a debate, however many calls are made.
C1_PollsFirstOpenSpeaker ==
    /\ \A t \in Tasks : tasks[t].pc = "gen" =>
          \E i \in DOMAIN speaker_order :
              /\ speaker_order[i] = tasks[t].next_speaker
              /\ speaker_order[i] \notin completed_speakers
              /\ \A j \in 1..(i - 1) : speaker_order[j] \in completed_speakers
    /\ \A i, j \in ResponseIndexes(debate_history) :
          (i < j /\ debate_history[i].sender = debate_history[j].sender)
              => debate_history[i].debate_round # debate_history[j].debate_round

\* a poll issued by a later call of a round, with earlier speakers completed
C1_Witness ==
    /\ tasks[1].pc = "gen" /\ tasks[1].op = "advance_debate"
    /\ Cardinality(completed_speakers) = 2
    /\ advances >= 4

C3_CompleteAfterEnoughCalls ==
    (AllIdle /\ debates > 0 /\ advances >= 4 * Len(speaker_order)) => state = COMPLETE

\* C4: a debate has no synthesis message before it is complete and exactly one
\* once it is; calls after that add none, so the shared log holds at most one
\* per debate started.
C4_ExactlyOneSynthesis ==
    /\ state \in IDLE..FINAL_SYNTHESIS => SynthesisIndexes(debate_history) = {}
    /\ state = COMPLETE => Cardinality(SynthesisIndexes(debate_history)) = 1
    /\ Cardinality(SynthesisIndexes(conversation_history)) <= debates

\* advance_debate was called again after the synthesis
C4_Witness ==
    /\ state = COMPLETE /\ Returned(1) /\ tasks[1].op = "advance_debate"
    /\ tasks[1].responses = <<>>
    /\ Cardinality(SynthesisIndexes(debate_history)) = 1

\* C5: in state COMPLETE final_positions has an entry for every participant of
\* speaker_order: the response it gave in the Responses round.
C5_FinalPositionsComplete ==
    state = COMPLETE =>
        \A p \in Range(speaker_order) :
            /\ p \in DOMAIN final_positions
            /\ \E i \in ResponseIndexes(debate_history) :
                  /\ debate_history[i].sender = p
                  /\ debate_history[i].debate_round = ROUND_3_RESPONSES
                  /\ debate_history[i].content = final_positions[p]

C5_Witness == state = COMPLETE /\ Len(speaker_order) >= 2

\* C6: an advance_debate call made in state IDLE or COMPLETE returns the empty
\* list without a generation call and changes nothing.
C6_NoOpWhenIdleOrComplete ==
    [][(/\ AllIdle /\ state \in {IDLE, COMPLETE}
        /\ tasks' # tasks /\ tasks'[1].op = "advance_debate")
       => /\ tasks'[1].pc = "idle" /\ tasks'[1].outcome = "returned"
          /\ tasks'[1].responses = <<>>
          /\ UNCHANGED <<active_roles, conversation_history, state, topic, rounds,
                         speaker_order, completed_speakers, questions, final_positions,
                         consensus_scores, debate_history, waiting_for_user,
                         user_inputs>>]_vars

C6_Witness ==
    /\ state = IDLE /\ Returned(1) /\ tasks[1].op = "advance_debate"
    /\ active_roles # <<>>

\* C7: when a call returns after a round has fully completed in it, the debate
\* is waiting for the user.
C7_WaitingAfterRound ==
    (Returned(1) /\ \E i \in DOMAIN tasks[1].responses : IsRoundStart(tasks[1].responses[i]))
    => waiting_for_user

\* C8: process_user_input(text) called once round r has completed (the state
\* is then r + 1) leaves waiting_for_user false, and user_inputs[r] = text
\* unless text is the skip token, for which user_inputs gets no entry for r.
C8_UserInputRecorded ==
    (/\ tasks[1].pc = "idle" /\ tasks[1].op = "process_user_input"
     /\ state \in ROUND_2_QUESTIONING..ROUND_4_CONSENSUS)
    => /\ ~waiting_for_user
       /\ tasks[1].outcome = "returned"
       /\ IF tasks[1].arg = SkipToken
          THEN (state - 1) \notin DOMAIN user_inputs
          ELSE /\ (state - 1) \in DOMAIN user_inputs
               /\ user_inputs[state - 1] = tasks[1].arg

\* C9: at most one generation call of the debate manager is in flight.
C9_OneGenerationInFlight == Cardinality({t \in Tasks : InFlight(t)}) <= 1

\* C10: when the first participant of a debate is polled, questions,
\* final_positions and consensus_scores are empty and the debate history holds
\* the start message alone; and everything kept or shown later comes from the
\* debate that is running.
C10_StartResetsDebate ==
    /\ (tasks[1].pc = "gen" /\ tasks[1].op = "start_debate"
            /\ Len(tasks[1].responses) = 1)
       => /\ questions = EmptyDict /\ final_positions = EmptyDict
          /\ consensus_scores = EmptyDict /\ completed_speakers = {}
          /\ Len(debate_history) = 1 /\ debate_history[1].is_system
          /\ state = ROUND_1_OPENING
    /\ \A i \in DOMAIN debate_history : debate_history[i].content.debate = debates
    /\ \A p \in DOMAIN questions : \A q \in DOMAIN questions[p] :
          questions[p][q].debate = debates
    /\ \A p \in DOMAIN final_positions : final_positions[p].debate = debates
    /\ \A p \in DOMAIN consensus_scores : Spoke(p, ROUND_4_CONSENSUS)
    /\ InFlight(1) =>
          LET prompt == tasks[1].prompt
          IN  /\ prompt.debate = debates
              /\ \A o \in DOMAIN prompt.openings : prompt.openings[o].debate = debates
              /\ \A o \in DOMAIN prompt.questions : prompt.questions[o].debate = debates
              /\ \A o \in DOMAIN prompt.positions :
                    prompt.positions[o].debate \in {0, debates}
              /\ \A o \in DOMAIN prompt.scores :
                    prompt.scores[o] > 0 =>
                        \E p \in Range(speaker_order) : Spoke(p, ROUND_4_CONSENSUS)

\* the first poll of a second debate, the first one having reached its allocations
C10_Witness ==
    /\ debates = 2 /\ tasks[1].pc = "gen" /\ tasks[1].op = "start_debate"
    /\ Len(tasks[1].responses) = 1
    /\ \E i \in DOMAIN conversation_history :
          /\ conversation_history[i].content.debate = 1
          /\ conversation_history[i].content.text = "allocation"

\* C11: a start_debate call sets speaker_order to the keys of active_roles as
\* they are at the call, in insertion order, or to [claude, chatgpt, gemini]
\* when active_roles is empty; no other step changes speaker_order, role
\* assignments made while the debate runs included.
C11_OrderFixedAtStart ==
    [][/\ debates' # debates =>
            speaker_order' = IF active_roles = <<>> THEN <<"claude", "chatgpt", "gemini">>
                             ELSE [i \in DOMAIN active_roles |-> active_roles[i][1]]
       /\ debates' = debates => speaker_order' = speaker_order]_vars

\* roles were assigned while a debate of the default three was running, and
\* the debate went on
C11_Witness ==
    /\ state \in ROUND_2_QUESTIONING..ROUND_4_CONSENSUS
    /\ Len(speaker_order) = 3 /\ Len(active_roles) = 2
    /\ tasks[1].op = "advance_debate" /\ tasks[1].pc = "gen"

\* the score speaker f gave to participant z, 0 when f gave none
Given(f, z) ==
    IF f \in DOMAIN consensus_scores /\ z \in DOMAIN consensus_scores[f]
    THEN consensus_scores[f][z] ELSE 0
Voters(z) == {f \in DOMAIN consensus_scores : z \in DOMAIN consensus_scores[f]}

\* C12: the average of a participant z is the sum of the scores given to z
\* divided, with truncation, by the number of speakers that have an entry for
\* z; it is 0 when nobody scored z.
C12_SparseAverage ==
    call.op = "calculate_average_scores" =>
        \A z \in Range(speaker_order) :
            LET sum == Given("claude", z) + Given("chatgpt", z) + Given("gemini", z)
                count == Cardinality(Voters(z))
                avg == call.result[z]
            IN  /\ count = 0 => avg = 0
                /\ count > 0 => (count * avg <= sum /\ sum < count * (avg + 1))

\* all three have given their scores, two of them scored z, and dividing by
\* three would give another average
C12_Witness ==
    /\ call.op = "calculate_average_scores"
    /\ DOMAIN consensus_scores = Range(speaker_order)
    /\ \E z \in Range(speaker_order) :
          /\ Cardinality(Voters(z)) = 2
          /\ call.result[z] > 0
          /\ call.result[z] # (Given("claude", z) + Given("chatgpt", z) + Given("gemini", z)) \div 3

RawOf == call.args[2]
StoredOf == consensus_scores[call.args[1]]
RawTotal == SumOver(RawOf, DOMAIN RawOf)
Rescaled == call.op = "extract_consensus_scores" /\ (RawTotal < 95 \/ RawTotal > 105)

\* C13 (as stated): when the raw scores a speaker gave to the three
\* participants sum to a value outside 95..105, the stored scores sum to 99,
\* 100 or 101.
C13_NormalizedSum ==
    (Rescaled /\ DOMAIN RawOf = Range(speaker_order))
    => SumOver(StoredOf, DOMAIN StoredOf) \in 99..101

\* C13 (amended): when those raw scores sum to a positive value outside
\* 95..105 the stored scores sum to 98, 99 or 100, each of the three
\* truncations losing less than 1; when they sum to 0 they are stored as read.
C13_NormalizedSumTruncated ==
    (Rescaled /\ DOMAIN RawOf = Range(speaker_order))
    => IF RawTotal > 0 THEN SumOver(StoredOf, DOMAIN StoredOf) \in 98..100
       ELSE StoredOf = RawOf

\* three rescaled scores that sum to 98
C13_Witness ==
    /\ Rescaled /\ DOMAIN RawOf = Range(speaker_order) /\ RawTotal > 105
    /\ SumOver(StoredOf, DOMAIN StoredOf) = 98

\* C14: the stored scores of a speaker keep the order of the raw ones: a
\* participant with a higher raw score has no lower stored score.
C14_OrderPreserved ==
    call.op = "extract_consensus_scores" =>
        /\ DOMAIN StoredOf = DOMAIN RawOf
        /\ \A x, y \in DOMAIN RawOf : RawOf[x] > RawOf[y] => StoredOf[x] >= StoredOf[y]

\* scores that were rescaled, two of them different
C14_Witness ==
    /\ Rescaled /\ StoredOf # RawOf
    /\ \E x, y \in DOMAIN RawOf : RawOf[x] > RawOf[y] /\ StoredOf[x] > StoredOf[y]

\* a pair of persona dicts, characters and llm_to_character, inverse of each other
Inverse(p) ==
    /\ \A l \in DOMAIN p.llm_to_character :
          /\ p.llm_to_character[l] \in DOMAIN p.characters
          /\ p.characters[p.llm_to_character[l]] = l
    /\ \A n \in DOMAIN p.characters :
          /\ p.characters[n] \in DOMAIN p.llm_to_character
          /\ p.llm_to_character[p.characters[n]] = n

\* after assigning name to llm: llm holds name, whoever held the name before
\* holds nothing, the persona llm held before is gone, the others keep theirs
Evicts(before, now, llm, name) ==
    /\ llm \in DOMAIN now.llm_to_character /\ now.llm_to_character[llm] = name
    /\ \A a \in DOMAIN before.llm_to_character :
          a # llm =>
             IF Lower(before.llm_to_character[a]) = Lower(name)
             THEN a \notin DOMAIN now.llm_to_character
             ELSE /\ a \in DOMAIN now.llm_to_character
                  /\ now.llm_to_character[a] = before.llm_to_character[a]
    /\ (llm \in DOMAIN before.llm_to_character /\ before.llm_to_character[llm] # name)
          => before.llm_to_character[llm] \notin DOMAIN now.characters

\* C15: in a CharacterManager the two dicts are inverse of each other, no two
\* persona names are equal up to case, and an assignment leaves the name with
\* the new holder alone: the earlier holder of the name has no persona and the
\* persona the new holder had is held by nobody.
C15_PersonaExclusive ==
    /\ Inverse(character_manager)
    /\ \A n, m \in DOMAIN character_manager.characters : Lower(n) = Lower(m) => n = m
    /\ (call.op = "assign_character" /\ call.result = "assigned")
       => Evicts(call.before.character_manager, character_manager,
                 Lower(call.args[1]), call.args[2])

\* chatgpt, holding "Y", was given the name claude held
C15_Witness ==
    /\ call.op = "assign_character" /\ call.result = "assigned"
    /\ call.args[1] = "chatgpt"
    /\ LET held == call.before.character_manager.llm_to_character
       IN  /\ DOMAIN held = {"claude", "chatgpt"}
           /\ Lower(held["claude"]) = Lower(call.args[2])
           /\ held["claude"] # call.args[2]
           /\ held["chatgpt"] = "Y"

\* C16: the characters and llm_to_character dicts of the conversation manager
\* are inverse of each other after any /character and /clear_characters
\* commands, and after /character A X, /character B X participant A has no
\* entry in llm_to_character.
C16_OrchestratorPersonaExclusive ==
    /\ Inverse(Registries)
    /\ (call.op = "/character" /\ call.result = "assigned")
       => Evicts(call.before, Registries, Lower(call.args[1]), call.args[2])

\* C20: an assignment with an invalid identifier ends with its notice (the
\* error for the CharacterManager) and leaves active_roles, both dicts of the
\* conversation manager and the CharacterManager as they were.
C20_InvalidMutatesNothing ==
    /\ (call.op = "/role" /\ call.args[1] \notin VALID_LLMS)
       => call.result = "unknown llm" /\ Registries = call.before
    /\ (call.op = "/role" /\ call.args[1] \in VALID_LLMS /\ call.args[2] \notin VALID_ROLES)
       => call.result = "invalid role" /\ Registries = call.before
    /\ (call.op = "/character" /\ Lower(call.args[1]) \notin VALID_LLMS)
       => call.result = "unknown llm" /\ Registries = call.before
    /\ (call.op = "assign_character" /\ Lower(call.args[1]) \notin VALID_LLMS)
       => call.result = "InvalidLLMError" /\ Registries = call.before

\* a role outside the valid set was given to a participant that has a role,
\* personas being assigned in both places
C20_Witness ==
    /\ call.op = "/role" /\ call.args = <<"claude", "villain">>
    /\ active_roles # <<>> /\ characters # <<>>
    /\ character_manager.characters # <<>>

\* the tokens of a mention map that are in the message
TokensIn(mentions, message) ==
    {i \in DOMAIN mentions : Contains(mentions[i][1], message)}
\* a token in the message that none in the message is longer than
LongestIn(mentions, message) ==
    {i \in TokensIn(mentions, message) :
        \A j \in TokensIn(mentions, message) : Len(mentions[j][1]) <= Len(mentions[i][1])}
HasFullName(message) ==
    \E token \in {AT_CLAUDE, AT_CHATGPT, AT_GEMINI} : Contains(token, message)

\* C17: parse_mentions returns the participant of a longest token that is in
\* the message together with the message without that token, trimmed; it
\* turns "@claude hello" into (claude, "hello") and returns a message without
\* tokens as it is, with no participant.
C17_LongestMentionFirst ==
    call.op = "parse_mentions" =>
        LET message == call.args[1]
            r == call.result
        IN  /\ TokensIn(RouterMentionMap, message) = {}
               => (r.target = None /\ r.text = message)
            /\ HasFullName(message) =>
                  \E i \in LongestIn(RouterMentionMap, message) :
                      /\ r.target = RouterMentionMap[i][2]
                      /\ r.text = Strip(ReplaceAll(message, RouterMentionMap[i][1]))
                      /\ Len(r.text) <= Len(message) - Len(RouterMentionMap[i][1])
                      /\ (r.text # <<>> => (Head(r.text) # " " /\ r.text[Len(r.text)] # " "))
            /\ message = AT_CLAUDE \o SPACE \o HELLO
                  => (r.target = "claude" /\ r.text = HELLO)

\* "@claude hello" was parsed
C17_Witness ==
    /\ call.op = "parse_mentions"
    /\ call.args[1] = AT_CLAUDE \o SPACE \o HELLO
    /\ call.result.text = HELLO

\* C18: process_message addresses an utterance by the longest token in it: the
\* target is the participant of that token, the logged content is the
\* utterance without it, and that participant alone is polled; "@claude
\* hello" goes to claude as "hello".
C18_ProcessMessageLongestFirst ==
    (call.op = "process_message" /\ HasFullName(call.args[1])) =>
        LET message == call.args[1]
            r == call.result
        IN  /\ \E i \in LongestIn(mention_map, message) :
                  /\ r.target = mention_map[i][2]
                  /\ conversation_history[1].content =
                        Strip(ReplaceAll(message, mention_map[i][1]))
            /\ r.responding_llms = <<r.target>>
            /\ {conversation_history[k].llm : k \in 2..Len(conversation_history)} = {r.target}

\* C19: the recipients are the target alone when there is one, else the keys
\* of the role registry in its order when it has entries, else the default
\* list; process_message chooses its responders the same way.
C19_RecipientFallback ==
    /\ call.op = "determine_recipient_llms" =>
          LET target_llm == call.args[1]
              given == call.args[2]
              roles == call.before.active_roles
          IN  /\ target_llm # None => call.result = <<target_llm>>
              /\ (target_llm = None /\ roles # <<>>)
                    => call.result = [i \in DOMAIN roles |-> roles[i][1]]
              /\ (target_llm = None /\ roles = <<>>)
                    => call.result = IF given = <<>> THEN <<"claude", "chatgpt", "gemini">>
                                     ELSE given[1]
    /\ call.op = "process_message" =>
          LET roles == call.before.active_roles
              r == call.result
          IN  r.responding_llms =
                 IF r.target # None THEN <<r.target>>
                 ELSE IF roles # <<>> THEN [i \in DOMAIN roles |-> roles[i][1]]
                 ELSE <<"claude", "chatgpt", "gemini">>

\* a target was given while the registry held two roles
C19_Witness ==
    /\ call.op = "determine_recipient_llms"
    /\ call.args[1] = "gemini"
    /\ Len(call.before.active_roles) = 2
    /\ call.before.active_roles[1][1] = "claude"

\* C21: a generation call's return, failed or not, is recorded as a response of
\* the polled participant at the end of both histories, the participant then
\* counts as having spoken in the round, the call does not raise, and a failure
\* before the round is complete leaves the state where it is for the others
\* to be polled; an ordinary turn returns one response per recipient, the
\* error text for those whose call failed.
C21_FailureIsInline ==
    [][/\ (tasks[1].pc = "gen" /\ tasks'[1] # tasks[1]) =>
            LET speaker == tasks[1].next_speaker
                n == Len(debate_history) + 1
                m == Len(conversation_history) + 1
            IN  /\ Len(debate_history') >= n /\ Len(conversation_history') >= m
                /\ debate_history'[n].sender = speaker
                /\ IsResponse(debate_history'[n])
                /\ debate_history'[n].debate_round = state
                /\ conversation_history'[m] = debate_history'[n]
                /\ tasks'[1].outcome # "raised"
                /\ IF Cardinality(completed_speakers \cup {speaker}) < Len(speaker_order)
                   THEN /\ completed_speakers' = completed_speakers \cup {speaker}
                        /\ state' = state
                        /\ tasks'[1].pc = "idle"
                   ELSE completed_speakers' = {} /\ state' > state
       /\ (call' # call /\ call'.op = "process_message") =>
            LET r == call'.result
                failing == call'.args[2]
            IN  /\ Len(r.responses) = Len(r.responding_llms)
                /\ \A i \in DOMAIN r.responses :
                      /\ r.responses[i].llm = r.responding_llms[i]
                      /\ r.responses[i].response =
                            IF r.responding_llms[i] \in failing THEN "error" ELSE "response"
                      /\ conversation_history'[Len(conversation_history) + 1 + i].llm =
                            r.responding_llms[i]]_vars

\* claude's call failed in the turn and the two others answered; in the
\* questioning round the first speaker's call failed and the second spoke
C21_Witness ==
    /\ call.op = "process_message" /\ call.args[2] = {"claude"}
    /\ Len(call.result.responses) = 3
    /\ state = ROUND_2_QUESTIONING
    /\ \E i, j \in ResponseIndexes(debate_history) :
          /\ i < j
          /\ debate_history[i].content.text = "error"
          /\ debate_history[i].debate_round = ROUND_2_QUESTIONING
          /\ debate_history[j].debate_round = ROUND_2_QUESTIONING
          /\ debate_history[j].sender # debate_history[i].sender

\* C22: a user message that is no command, sent when the last debate call has
\* returned with a round completed in it (the pause of C7), is handed to
\* process_user_input with that text, is not dispatched as an ordinary turn and
\* leaves the conversation log as it was.
C22_PausedInputHandedOn ==
    (/\ call.op = "process_message"
     /\ Returned(1) /\ call.at.debate_log = Len(debate_history)
     /\ call.at.state \in ROUND_2_QUESTIONING..ROUND_4_CONSENSUS
     /\ \E i \in DOMAIN tasks[1].responses : IsRoundStart(tasks[1].responses[i]))
    => /\ call.result.handed_to = "process_user_input"
       /\ call.result.text = call.args[1]
       /\ call.result.responding_llms = <<>>
       /\ Len(conversation_history) = call.at.log

\* C23: every step of a session (an ordinary turn, a command, start_debate,
\* advance_debate, the synthesis) leaves the entries of the conversation log
\* where they are and adds new entries only at its end.
C23_LogAppendOnly ==
    [][/\ Len(conversation_history') >= Len(conversation_history)
       /\ \A i \in DOMAIN conversation_history :
             conversation_history'[i] = conversation_history[i]]_vars

\* a debate was begun, the user's message and its replies were logged after its
\* first entries, and the debate went on to its synthesis after them
C23_Witness ==
    /\ call.op = "process_message" /\ call.at.log > 0
    /\ state = COMPLETE
    /\ Len(conversation_history) >
          call.at.log + 1 + Len(call.result.responding_llms)
    /\ conversation_history[Len(conversation_history)].is_synthesis
    /\ conversation_history[call.at.log + 1].sender = "user"

Restarts == debates' = debates + 1

\* the step is the return of the generation call of the last open participant
LastSpoke ==
    /\ tasks[1].pc = "gen"
    /\ completed_speakers \cup {tasks[1].next_speaker} = Range(speaker_order)

\* C25 as stated: completed_speakers is always a subset of speaker_order, and
\* any step in which the state leaves a numbered round is one in which
\* completed_speakers has become equal to speaker_order and is cleared.
C25_RoundLeftOnlyWhenAllSpoke ==
    [][/\ completed_speakers' \subseteq Range(speaker_order')
       /\ (state \in ROUND_1_OPENING..ROUND_4_CONSENSUS /\ state' # state)
             => (LastSpoke /\ completed_speakers' = {})]_vars

\* C25, amended: completed_speakers is always a subset of speaker_order; a
\* step in which the state leaves a numbered round is either one in which
\* completed_speakers has become equal to speaker_order, or the beginning of
\* a start_debate, which goes back to the first round; both clear the set.
C25_RoundLeftWhenAllSpokeOrRestart ==
    [][/\ completed_speakers' \subseteq Range(speaker_order')
       /\ (state \in ROUND_1_OPENING..ROUND_4_CONSENSUS /\ state' # state)
             => /\ completed_speakers' = {}
                /\ IF Restarts THEN state' = ROUND_1_OPENING
                   ELSE LastSpoke /\ state' > state]_vars

\* the second debate of the session, begun while the first was in a later
\* round, has left its first round after its three participants spoke
C25_Witness ==
    /\ debates = 2 /\ state = ROUND_2_QUESTIONING /\ completed_speakers = {}
    /\ Len(speaker_order) = 3
    /\ \A i \in DOMAIN speaker_order : Spoke(speaker_order[i], ROUND_1_OPENING)

\* C26: when the last open participant of a round below the fourth has spoken,
\* the state goes up by one, the round-transition message is recorded, and the
\* call polls the first participant of the new round, unless the new round is
\* the consensus round: then the call returns without a poll.
C26_NoPollIntoConsensus ==
    [][(LastSpoke /\ tasks'[1] # tasks[1] /\ tasks'[1].outcome # "raised"
        /\ state \in ROUND_1_OPENING..ROUND_3_RESPONSES)
       => /\ state' = state + 1
          /\ completed_speakers' = {}
          /\ IsRoundStart(debate_history'[Len(debate_history) + 2])
          /\ debate_history'[Len(debate_history) + 2].debate_round = state + 1
          /\ IF state' = ROUND_4_CONSENSUS
             THEN tasks'[1].pc = "idle" /\ Len(debate_history') = Len(debate_history) + 2
             ELSE /\ tasks'[1].pc = "gen"
                  /\ tasks'[1].next_speaker = speaker_order[1]]_vars

\* C27: a step that is not the beginning of a start_debate leaves the state
\* where it is or moves it to the next of ROUND_1_OPENING, ROUND_2_QUESTIONING,
\* ROUND_3_RESPONSES, ROUND_4_CONSENSUS, FINAL_SYNTHESIS, COMPLETE; IDLE and
\* COMPLETE are left only by start_debate, which enters the first round.
C27_StateMovesForward ==
    [][IF Restarts THEN state' = ROUND_1_OPENING
       ELSE \/ state' = state
            \/ /\ state \in ROUND_1_OPENING..FINAL_SYNTHESIS
               /\ state' = state + 1]_vars

\* a debate went through the consensus round to COMPLETE, and a later
\* advance_debate call returned with the state still COMPLETE
C27_Witness ==
    /\ state = COMPLETE /\ Returned(1)
    /\ tasks[1].op = "advance_debate" /\ tasks[1].responses = <<>>
    /\ \E i \in DOMAIN speaker_order : Spoke(speaker_order[i], ROUND_4_CONSENSUS)
    /\ \E i \in SynthesisIndexes(debate_history) : i = Len(debate_history)

\* C28: while a participant p is polled in the responses round, every
\* participant has an entry in questions (its extraction has run), and the
\* prompt of p shows questions[q][p] for exactly the other participants q with
\* such an entry: none from p, none for a pair without a question.
C28_PromptShowsQuestionsAsked ==
    (tasks[1].pc = "gen" /\ state = ROUND_3_RESPONSES) =>
        LET p == tasks[1].next_speaker
            shown == tasks[1].prompt.questions
        IN  /\ \A i \in DOMAIN speaker_order : speaker_order[i] \in DOMAIN questions
            /\ p \notin DOMAIN shown
            /\ \A i \in DOMAIN speaker_order :
                  LET q == speaker_order[i]
                  IN  q # p =>
                        IF p \in DOMAIN questions[q]
                        THEN q \in DOMAIN shown /\ shown[q] = questions[q][p]
                        ELSE q \notin DOMAIN shown
            /\ DOMAIN shown \subseteq Range(speaker_order)

\* of the two others, one asked p a question and one (whose generation failed
\* in the questioning round) asked none
C28_Witness ==
    /\ tasks[1].pc = "gen" /\ state = ROUND_3_RESPONSES
    /\ Len(speaker_order) = 3
    /\ \E q1, q2 \in Range(speaker_order) \ {tasks[1].next_speaker} :
          /\ q1 \in DOMAIN tasks[1].prompt.questions
          /\ q2 \notin DOMAIN tasks[1].prompt.questions
          /\ questions[q2] = EmptyDict

\* the entries of part occur in whole in the same order
RECURSIVE IsSubsequence(_, _)
IsSubsequence(part, whole) ==
    IF part = <<>> THEN TRUE
    ELSE IF whole = <<>> THEN FALSE
    ELSE IF Head(part) = Head(whole) THEN IsSubsequence(Tail(part), Tail(whole))
    ELSE IsSubsequence(part, Tail(whole))

\* what a step added to the debate history
Emitted ==
    IF Restarts THEN debate_history'
    ELSE SubSeq(debate_history', Len(debate_history) + 1, Len(debate_history'))

\* C29: the messages a step of the debate manager adds to debate_history (the
\* start notice, responses, round messages, the synthesis notice, the
\* synthesis) are added in the same order at the end of conversation_history,
\* and debate_history, which holds the messages since the last start_debate,
\* is always a subsequence of conversation_history.
C29_DebateMessagesInBothLogs ==
    /\ [](IsSubsequence(debate_history, conversation_history))
    /\ [][(Restarts \/ debate_history' # debate_history)
            => conversation_history' = conversation_history \o Emitted]_vars

\* the second debate of the session is over; the log also holds the first
\* debate and, between two messages of the second, the user's turn
C29_Witness ==
    /\ debates = 2 /\ state = COMPLETE
    /\ debate_history[Len(debate_history)].is_synthesis
    /\ call.op = "process_message"
    /\ call.at.debate_log > 1 /\ call.at.debate_log < Len(debate_history)
    /\ Len(conversation_history) > Len(debate_history) + 4

\* C30: every score stored in consensus_scores is between 0 and 100, whatever
\* non-negative percentages the consensus-round responses held.
C30_ScoresWithinPercent ==
    \A from \in DOMAIN consensus_scores : \A to \in DOMAIN consensus_scores[from] :
        consensus_scores[from][to] \in 0..100

\* C31: the scores extract_consensus_scores stores for a speaker are the
\* extracted ones unchanged when these sum to 95, to 105, to anything between,
\* or to 0; stored scores differ from the extracted ones only for a sum below
\* 95 or above 105.
C31_RescaledOnlyOutsideTolerance ==
    call.op = "extract_consensus_scores" =>
        /\ (RawTotal \in 95..105 \/ RawTotal = 0) => StoredOf = RawOf
        /\ StoredOf # RawOf => (RawTotal > 0 /\ (RawTotal < 95 \/ RawTotal > 105))
        /\ (RawTotal > 105 \/ RawTotal \in 1..94) =>
              \A o \in DOMAIN RawOf : StoredOf[o] * RawTotal <= RawOf[o] * 100

\* scores of 95 and 0 were stored as they were read
C31_Witness ==
    /\ call.op = "extract_consensus_scores" /\ RawTotal = 95
    /\ Cardinality(DOMAIN RawOf) = 2 /\ StoredOf = RawOf

\* the answer in the format the prompt asks for, markers for every name shown
WellFormed(prompt) ==
    Content(IF prompt.round = ROUND_2_QUESTIONING THEN "questions" ELSE "allocation",
            prompt.topic, prompt.debate, prompt.names)

\* C32: when the response of the polled speaker in the questioning or the
\* consensus round is returned, the speaker's map holds an entry exactly for
\* the targets whose marker the response carries (none for a missed target),
\* the call does not raise, and state, completed_speakers, the next poll and
\* the number of messages recorded are those a response with every marker
\* would have led to.
C32_ExtractionMissNonFatal ==
    [][(/\ tasks[1].pc = "gen" /\ tasks'[1] # tasks[1]
        /\ state \in {ROUND_2_QUESTIONING, ROUND_4_CONSENSUS})
       => LET speaker == tasks[1].next_speaker
              content == debate_history'[Len(debate_history) + 1].content
              targets == {o \in Range(speaker_order) :
                             /\ DisplayName(o) \in content.names
                             /\ state = ROUND_2_QUESTIONING => o # speaker}
              entries == IF state = ROUND_2_QUESTIONING THEN questions'[speaker]
                         ELSE consensus_scores'[speaker]
              good == ResumeRound(Self, speaker, WellFormed(tasks[1].prompt),
                                  tasks[1].responses)
          IN  /\ DOMAIN entries = targets
              /\ tasks'[1].outcome # "raised"
              /\ state' = good.self.state
              /\ completed_speakers' = good.self.completed_speakers
              /\ tasks'[1].pc = good.pc
              /\ tasks'[1].next_speaker = good.next_speaker
              /\ Len(debate_history') = Len(good.self.debate_history)]_vars

\* the debate is complete although one speaker asked no question and one
\* speaker gave no score
C32_Witness ==
    /\ state = COMPLETE /\ Len(speaker_order) = 3
    /\ \E s \in DOMAIN questions : questions[s] = EmptyDict
    /\ \E s \in DOMAIN questions : questions[s] # EmptyDict
    /\ \E s \in DOMAIN consensus_scores : consensus_scores[s] = EmptyDict
    /\ \E s \in DOMAIN consensus_scores : consensus_scores[s] # EmptyDict

\* C33: in a numbered round, between calls and while a generation call is
\* suspended, some participant of speaker_order is not in completed_speakers;
\* the branch for "no next speaker", which sets COMPLETE without a synthesis,
\* is not taken: a debate that is COMPLETE ends with its synthesis.
C33_SomeSpeakerOpen ==
    /\ state \in ROUND_1_OPENING..ROUND_4_CONSENSUS =>
          /\ \E i \in DOMAIN speaker_order : speaker_order[i] \notin completed_speakers
          /\ NextSpeaker(Self) # None
    /\ state = COMPLETE =>
          /\ debate_history # <<>>
          /\ debate_history[Len(debate_history)].is_synthesis

\* between two calls, two of three participants have spoken in the consensus round
C33_Witness ==
    /\ state = ROUND_4_CONSENSUS /\ Returned(1) /\ Len(speaker_order) = 3
    /\ Cardinality(completed_speakers) = 2

\* C34: a start_debate call, in whatever state it is made, puts the state at
\* ROUND_1_OPENING with speaker_order taken from the roles of the moment (the
\* default three if there are none), empties questions, final_positions,
\* consensus_scores and completed_speakers, leaves debate_history with the
\* start message alone, appends that message to the conversation log without
\* touching its earlier entries, and polls the first of the new speaker_order.
C34_StartAcceptedAnywhere ==
    [][Restarts =>
        /\ state' = ROUND_1_OPENING
        /\ speaker_order' = IF active_roles = <<>> THEN DefaultSpeakers
                            ELSE Keys(active_roles)
        /\ questions' = EmptyDict /\ final_positions' = EmptyDict
        /\ consensus_scores' = EmptyDict /\ completed_speakers' = {}
        /\ Len(debate_history') = 1
        /\ debate_history'[1].is_system
        /\ debate_history'[1].content.text = "debate_start"
        /\ debate_history'[1].content.debate = debates'
        /\ conversation_history' = Append(conversation_history, debate_history'[1])
        /\ IF cm_has_character_manager
           THEN /\ tasks'[1].pc = "gen"
                /\ tasks'[1].next_speaker = speaker_order'[1]
                /\ tasks'[1].prompt.round = ROUND_1_OPENING
                /\ tasks'[1].prompt.debate = debates'
           ELSE tasks'[1].pc = "idle" /\ tasks'[1].outcome = "raised"]_vars

\* the second debate begins with gemini, its first participant, polled; the
\* entry of the log before its start message is a response of the questioning
\* round of the first debate, which was left unfinished
C34_Witness ==
    /\ debates = 2 /\ tasks[1].pc = "gen" /\ tasks[1].op = "start_debate"
    /\ Len(debate_history) = 1 /\ state = ROUND_1_OPENING
    /\ speaker_order[1] = "gemini" /\ tasks[1].next_speaker = "gemini"
    /\ Len(conversation_history) > 2
    /\ LET last == conversation_history[Len(conversation_history) - 1]
       IN  IsResponse(last) /\ last.debate_round = ROUND_2_QUESTIONING
           /\ last.sender # "gemini"

\* C35: the state is FINAL_SYNTHESIS only while the generation call of the
\* synthesis is suspended: no call has returned with the state
\* FINAL_SYNTHESIS, and the call in which the last participant of the
\* consensus round spoke returns with the synthesis and the state COMPLETE.
C35_SynthesisNeverObserved ==
    /\ tasks[1].pc = "idle" => state # FINAL_SYNTHESIS
    /\ state = FINAL_SYNTHESIS => tasks[1].pc = "syn"
    /\ (Returned(1) /\ \E i \in DOMAIN tasks[1].responses :
                          /\ IsResponse(tasks[1].responses[i])
                          /\ tasks[1].responses[i].debate_round = ROUND_4_CONSENSUS
                          /\ tasks[1].responses[i].speaker_index =
                                tasks[1].responses[i].total_speakers)
       => /\ state = COMPLETE
          /\ tasks[1].responses[Len(tasks[1].responses)].is_synthesis

\* an advance_debate call returned the last allocation of three and the
\* synthesis
C35_Witness ==
    /\ Returned(1) /\ tasks[1].op = "advance_debate" /\ state = COMPLETE
    /\ Len(speaker_order) = 3 /\ Len(tasks[1].responses) = 2
    /\ tasks[1].responses[1].debate_round = ROUND_4_CONSENSUS
    /\ tasks[1].responses[1].speaker_index = 3
    /\ tasks[1].responses[2].is_synthesis

\* the participant responses among the messages of the call
Polls(t) == {i \in DOMAIN tasks[t].responses : IsResponse(tasks[t].responses[i])}

C37_LabelOfPromptRound ==
    [][\A t \in Tasks :
          (tasks[t].pc = "gen" /\ tasks'[t] # tasks[t]) =>
             LET speaker == tasks[t].next_speaker
                 built == tasks[t].prompt.round
                 response == debate_history'[Len(debate_history) + 1]
             IN  /\ response.sender = speaker
                 /\ response.debate_round = built
                 /\ built = ROUND_2_QUESTIONING => speaker \in DOMAIN questions'
                 /\ built = ROUND_3_RESPONSES =>
                       /\ speaker \in DOMAIN final_positions'
                       /\ final_positions'[speaker] = response.content
                 /\ built = ROUND_4_CONSENSUS => speaker \in DOMAIN consensus_scores'
                 /\ built # ROUND_2_QUESTIONING => questions' = questions
                 /\ built # ROUND_3_RESPONSES => final_positions' = final_positions
                 /\ built # ROUND_4_CONSENSUS => consensus_scores' = consensus_scores]_vars

\* C38: a /continue given when no debate was started, or when the state is
\* IDLE or COMPLETE, returns without a poll and leaves the debate session, the
\* conversation log, the roles and the personas as they were.
C38_ContinueWithoutDebate ==
    [][(/\ AllIdle /\ state \in {IDLE, COMPLETE}
        /\ tasks' # tasks /\ tasks'[1].op \in {"/continue", "advance_debate"})
       => /\ tasks'[1].pc = "idle" /\ tasks'[1].outcome = "returned"
          /\ \A i \in DOMAIN tasks'[1].responses : tasks'[1].responses[i].is_system
          /\ UNCHANGED <<conversation_history, state, topic, rounds, speaker_order,
                         completed_speakers, questions, final_positions,
                         consensus_scores, debate_history, waiting_for_user,
                         user_inputs, active_roles, characters, llm_to_character,
                         character_manager>>]_vars

\* /continue after a complete debate returned nothing; roles are assigned and
\* the user's turn is in the log
C38_Witness ==
    /\ state = COMPLETE /\ Returned(1) /\ tasks[1].op = "advance_debate"
    /\ tasks[1].responses = <<>>
    /\ active_roles # <<>> /\ call.op = "process_message"
====
